---- MODULE Spec2Model ----
(***************************************************************************)
(* JobForge workers.                                                       *)
(*                                                                         *)
(* Part I  models the direct-DB worker (packages/python-worker): the job   *)
(*         table behind JobDatabase and the polling loop of Worker, one    *)
(*         process per worker id, all sharing the table.                   *)
(* Part II models the RPC worker (services/worker-py): one asyncio process *)
(*         with its poll loop, executors, heartbeat tasks and handler      *)
(*         threads, talking to the queue store through JobForgeClient.     *)
(***************************************************************************)
EXTENDS Integers, Sequences, FiniteSets, TLC

(* ------------------------------ bounds ---------------------------------- *)
NumWorkers == 2
MaxRetriesBound == 2
MaxAttemptsBound == 2

(* ------------------------- optional values ------------------------------ *)
None == <<>>
Some(x) == <<x>>
Val(o) == o[1]

(***************************************************************************)
(*                       PART I : the direct-DB worker                     *)
(***************************************************************************)
Workers == 1..NumWorkers
\* The ids of the rows of the jobs table, in creation order.
Jobs == {1, 2}

\* Worker.handlers after start-up: the job names that have a handler.
handlers == {"process_data", "generate_report"}

VARIABLES
    dbNow,               \* datetime.now(UTC), in ticks
    jobs,                \* the jobs table: id -> JobRow
    wpc,                 \* per worker: position in Worker.run / _execute_job
    wjob,                \* per worker: the claimed JobRow's id (None outside _execute_job)
    wretry,              \* per worker: the retry flag it is about to pass to mark_job_failed
    wraised,             \* per worker: the exception _execute_job is handling (None: none)
    overran,             \* history: workers whose handler ran for more than job_timeout_seconds
    job_correlation_id,  \* per worker: the local correlation_id of _execute_job (None outside)
    worker_correlation_id, \* per worker process: its ContextVar _correlation_id
    shutdown_requested,  \* per worker: Worker.shutdown_requested (set by the signal handler)
    openClaims,          \* history: per job, claims returned minus returns to pending
    nonRetryFailed,      \* history: jobs whose execution failed with retryable = False
    claimsAfterSignal    \* history: per worker, claim_next_job calls issued after the signal

dbHist == <<openClaims, nonRetryFailed, claimsAfterSignal>>
dbTrace == <<job_correlation_id, worker_correlation_id>>
dbVars == <<dbNow, jobs, wpc, wjob, wretry, wraised, overran, dbTrace, shutdown_requested,
            dbHist>>

\* The state of Part II, declared here because every step of Part I leaves it alone.
VARIABLES
    rcfg,             \* Worker.__init__ arguments and the registration's timeout_s
    store,            \* the queue store's job rows: id -> row
    mpc,              \* position of the main task in Worker.run / run_once / _shutdown
    running,          \* Worker.running
    shutting_down,    \* Worker.shutting_down
    batch,            \* the jobs handed to asyncio.gather by the current run_once
    sleepLeft,        \* seconds left of the main task's asyncio.sleep
    drainElapsed,     \* time.time() - start in _shutdown
    active_jobs,      \* Worker.active_jobs
    heartbeat_tasks,  \* the keys of Worker.heartbeat_tasks
    epc,              \* per job: position of its _process_job task
    hstate,           \* per job: its handler thread (asyncio.to_thread)
    hb,               \* per job: its _heartbeat_loop task
    handlerLeft,      \* per job: seconds until the handler thread returns (None: never)
    timeoutLeft,      \* per job: seconds until asyncio.wait_for gives up
    hbLeft,           \* per job: seconds left of the heartbeat task's asyncio.sleep
    completeCalls,    \* history: per job, complete_job calls issued in the current attempt
    lastError,        \* history: per job, the error dict of its last complete_job(failed)
    handlerInvoked,   \* history: jobs whose handler was invoked in the current attempt
    succeededOk,      \* history: jobs whose complete_job(succeeded) returned normally
    lateHeartbeat,    \* history: jobs heartbeated after that
    heartbeated,      \* history: jobs heartbeated in the current attempt
    claimsAfterSig,   \* history: claim_jobs calls issued after the signal
    sinceSignal,      \* history: seconds since the signal was delivered (None before)
    waited,           \* history: per job, seconds its executor has awaited the handler
    hbCount,          \* history: per job, heartbeat_job calls issued during that wait
    hbFailed,         \* history: per job, how many of them raised (counted up to 2)
    onceClaims,       \* history: claim_jobs calls issued by the current run_once
    claim_failed,     \* history: the last claim_jobs call raised
    uuid_calls,       \* the number of uuid4() calls made so far
    trace_id,         \* per job: the local trace_id of its _process_job (None outside)
    context,          \* per job: the context dict handed to its handler (None: no handler run)
    job_logger,       \* per job: the context of the local job_logger (None outside)
    logs              \* history: per job, the entries logged during the current attempt

rMain == <<mpc, running, shutting_down, batch, sleepLeft, drainElapsed>>
rTasks == <<active_jobs, heartbeat_tasks, epc, hstate, hb>>
rTimers == <<handlerLeft, timeoutLeft, hbLeft>>
rHist == <<completeCalls, lastError, handlerInvoked, succeededOk, lateHeartbeat,
           heartbeated, claimsAfterSig, sinceSignal>>
rClock == <<waited, hbCount, hbFailed>>
rTrace == <<uuid_calls, trace_id, context, job_logger, logs>>
rpcVars == <<rcfg, store, rMain, rTasks, rTimers, rHist, rClock, onceClaims, claim_failed,
             rTrace>>

\* The state of Part III, declared here because every step of Parts I and II leaves it alone.
VARIABLES
    lib,              \* which library object is exercised: "registry", "correlation", "client",
                      \* "startup" (the direct-DB Worker before run()) or "off"
    _handlers,        \* HandlerRegistry._handlers: job type -> registration (None: no key)
    register_calls,   \* history: the register calls made, in order
    result,           \* the outcome of the last HandlerRegistry call
    _correlation_id,  \* the ContextVar _correlation_id of errors.py
    ops,              \* history: the correlation-id calls made, in order, with what get returned
    response,         \* what self._client.post gave the last _rpc call (a response or an error)
    rpc_outcome,      \* what the last _rpc call returned or raised
    self_handlers,    \* Worker.handlers of the direct-DB worker: job name -> handler (None: no key)
    registered        \* history: the register_handler calls made, in order

sdkVars == <<response, rpc_outcome>>
startVars == <<self_handlers, registered>>
libVars == <<lib, _handlers, register_calls, result, _correlation_id, ops, sdkVars,
             startVars>>

vars == <<dbVars, rpcVars, libVars>>


JobRow(n, p, m, s) ==
    [name |-> n, status |-> "pending", priority |-> p, maxRetries |-> m,
     retryCount |-> 0, scheduledAt |-> s, startedAt |-> None, completedAt |-> None,
     correlationId |-> None]

\* Rows as the enqueuing API leaves them: pending, never run, default
\* priority, due at once, with the smallest maxRetries (no retry) or the
\* largest.  A job without a handler fails the same way whatever its
\* maxRetries, so it is given the largest one only.
NewJobRows ==
    {JobRow("process_data", 0, m, None) : m \in {1, MaxRetriesBound}}
        \cup {JobRow("unregistered", 0, MaxRetriesBound, None)}

\* A table of two jobs that are due: the older has the default priority and
\* was scheduled one tick ago, the younger has a higher priority and is
\* scheduled now.
PriorityTables ==
    {[j \in Jobs |-> IF j = 1 THEN JobRow("process_data", 0, 1, Some(0 - 1))
                               ELSE JobRow("process_data", 1, 1, Some(0))]}

\* A correlation id given to job j by whoever enqueued it.
EnqueuedCorrelationId(j) == [source |-> "enqueuer", job |-> j, attempt |-> 0]
\* A table whose older job was enqueued with a correlation id and whose
\* younger job was not; both are run once.
CorrelatedTables ==
    {[j \in Jobs |->
        IF j = 1
        THEN [JobRow("process_data", 0, 1, None)
                 EXCEPT !.correlationId = Some(EnqueuedCorrelationId(j))]
        ELSE JobRow("process_data", 0, 1, None)]}

\* A table of two report jobs that are run once.
ReportTables == {[j \in Jobs |-> JobRow("generate_report", 0, 1, None)]}

\* A table whose older job is scheduled one tick ahead and whose younger job
\* is due at once.
ScheduledTables ==
    {[j \in Jobs |-> IF j = 1 THEN JobRow("process_data", 0, 1, Some(1))
                               ELSE JobRow("process_data", 0, 1, None)]}

(* --------------------------- JobDatabase -------------------------------- *)
\* The WHERE clause of the claim query's sub-select.
ClaimableAnyStatus(row, now) ==
    /\ row.status \in {"pending", "running"}
    /\ (row.scheduledAt = None \/ Val(row.scheduledAt) <= now)
    /\ row.retryCount < row.maxRetries
ClaimableIgnoringSchedule(row, now) ==
    /\ row.status = "pending"
    /\ row.retryCount < row.maxRetries
Claimable(row, now) ==
    /\ row.status = "pending"
    /\ (row.scheduledAt = None \/ Val(row.scheduledAt) <= now)
    /\ row.retryCount < row.maxRetries

\* ORDER BY priority DESC, "scheduledAt" ASC NULLS FIRST, "createdAt" ASC
\* (ids are handed out in creation order, so createdAt is the id).
SchedKey(row) == IF row.scheduledAt = None THEN 0 - 1 ELSE Val(row.scheduledAt)
OrderedBefore(tbl, a, b) ==
    \/ tbl[a].priority > tbl[b].priority
    \/ /\ tbl[a].priority = tbl[b].priority
       /\ \/ SchedKey(tbl[a]) < SchedKey(tbl[b])
          \/ SchedKey(tbl[a]) = SchedKey(tbl[b]) /\ a < b

\* The sub-select with LIMIT 1: the set holding the first claimable id, or {}.
ClaimCandidates(tbl, now) == {j \in Jobs : Claimable(tbl[j], now)}
SelectNext(tbl, now) ==
    {j \in ClaimCandidates(tbl, now) :
        \A k \in ClaimCandidates(tbl, now) \ {j} : OrderedBefore(tbl, j, k)}

\* The UPDATE of claim_next_job applied to row j.
claim_update(tbl, j, now) ==
    [tbl EXCEPT ![j].status = "running", ![j].startedAt = Some(now)]

mark_job_completed(tbl, j, now) ==
    [tbl EXCEPT ![j].status = "completed", ![j].completedAt = Some(now)]

mark_job_failed_ignoring_retry_flag(tbl, j, retry, now) ==
    [tbl EXCEPT ![j].status = IF tbl[j].retryCount + 1 < tbl[j].maxRetries
                              THEN "pending" ELSE "failed",
                ![j].retryCount = @ + 1,
                ![j].completedAt = IF tbl[j].retryCount + 1 >= tbl[j].maxRetries
                                   THEN Some(now) ELSE None,
                ![j].startedAt = None]
mark_job_failed_off_by_one(tbl, j, retry, now) ==
    IF retry
    THEN [tbl EXCEPT ![j].status = IF tbl[j].retryCount + 1 <= tbl[j].maxRetries
                                   THEN "pending" ELSE "failed",
                     ![j].retryCount = @ + 1,
                     ![j].completedAt = IF tbl[j].retryCount + 1 > tbl[j].maxRetries
                                        THEN Some(now) ELSE None,
                     ![j].startedAt = None]
    ELSE [tbl EXCEPT ![j].status = "failed", ![j].completedAt = Some(now)]
mark_job_failed(tbl, j, retry, now) ==
    IF retry
    THEN [tbl EXCEPT ![j].status = IF tbl[j].retryCount + 1 < tbl[j].maxRetries
                                   THEN "pending" ELSE "failed",
                     ![j].retryCount = @ + 1,
                     ![j].completedAt = IF tbl[j].retryCount + 1 >= tbl[j].maxRetries
                                        THEN Some(now) ELSE None,
                     ![j].startedAt = None]
    ELSE [tbl EXCEPT ![j].status = "failed", ![j].completedAt = Some(now)]

(* ------------------------------ errors --------------------------------- *)
\* JobError.__init__(message, retryable=True, details=None), called with the
\* retryable argument "absent", "true" or "false".
JobErrorOf(class, arg) == [class |-> class, arg |-> arg, retryable |-> (arg # "false")]
JobError(arg) == JobErrorOf("JobError", arg)
\* The subclasses call super().__init__ with a fixed retryable.
JobValidationError == JobErrorOf("JobValidationError", "false")
JobTimeoutError == JobErrorOf("JobTimeoutError", "true")
JobRPCError == JobErrorOf("JobRPCError", "true")
\* An exception that is no JobError: it has no retryable attribute.
OtherException == [class |-> "Exception", arg |-> "absent", retryable |-> "absent"]
JobErrorClasses == {"JobError", "JobValidationError", "JobTimeoutError", "JobRPCError"}

\* The retry argument of mark_job_failed in the two except blocks of
\* _execute_job: e.retryable under `except JobError`, True under `except Exception`.
retry_flag_always(e) == TRUE
retry_flag(e) == IF e.class \in JobErrorClasses THEN e.retryable ELSE TRUE

\* WorkerConfig.job_timeout_seconds (its default)
job_timeout_seconds == 300
\* What a handler's execute can raise instead of returning, and how long it
\* can run: ProcessDataHandler raises a non-retryable JobError or fails
\* unexpectedly, within the time limit; GenerateReportHandler raises a plain
\* JobError, its validation error or the RPC client's error, and may run past
\* the limit.
Raises(name) ==
    IF name = "generate_report"
    THEN {JobError("absent"), JobValidationError, JobRPCError}
    ELSE {JobError("false"), OtherException}
RunTimes(name) ==
    IF name = "generate_report"
    THEN {job_timeout_seconds, job_timeout_seconds + 1}
    ELSE {job_timeout_seconds}

(* --------------------------- correlation ids --------------------------- *)
\* generate_correlation_id(): str(uuid.uuid4()).  A job is given at most one
\* generated id per attempt, so the call is named by the job and the attempt.
generate_correlation_id(j, n) == [source |-> "uuid4", job |-> j, attempt |-> n]
\* correlation_id = job.get("correlationId") or generate_correlation_id()
execute_job_correlation_id_generated(row, j) == generate_correlation_id(j, row.retryCount)
execute_job_correlation_id(row, j) ==
    IF row.correlationId # None THEN Val(row.correlationId)
    ELSE generate_correlation_id(j, row.retryCount)
\* The first lines of _execute_job, before its try block: the id is chosen
\* and set_correlation_id(correlation_id) stores it in the ContextVar.
execute_job_entry(w, row, j) ==
    /\ job_correlation_id' =
          [job_correlation_id EXCEPT ![w] = Some(execute_job_correlation_id(row, j))]
    /\ worker_correlation_id' =
          [worker_correlation_id EXCEPT ![w] = Some(execute_job_correlation_id(row, j))]
\* `finally: clear_correlation_id()`, after which the local is gone.
execute_job_without_finally(w) ==
    /\ job_correlation_id' = [job_correlation_id EXCEPT ![w] = None]
    /\ UNCHANGED worker_correlation_id
execute_job_finally(w) ==
    /\ job_correlation_id' = [job_correlation_id EXCEPT ![w] = None]
    /\ worker_correlation_id' = [worker_correlation_id EXCEPT ![w] = None]
\* "correlationId" = COALESCE(%s, "correlationId") in the UPDATE of
\* mark_job_completed and mark_job_failed.
write_correlation_id(tbl, j, cid) ==
    [tbl EXCEPT ![j].correlationId = IF cid # None THEN cid ELSE @]
\* RPCClient._get_headers in worker w's process.
NoHeaders == [h \in {} |-> h]
_get_headers(w) ==
    IF worker_correlation_id[w] # None
    THEN [h \in {"X-Correlation-ID"} |-> Val(worker_correlation_id[w])]
    ELSE NoHeaders

(* ------------------------------ Worker ---------------------------------- *)
\* Every worker has passed the health checks of run() and is about to enter
\* its polling loop; no signal has been delivered yet.
DbInit ==
    /\ dbNow = 0
    /\ jobs \in [Jobs -> NewJobRows] \cup ScheduledTables \cup ReportTables \cup PriorityTables
                \cup CorrelatedTables
    /\ wpc = [w \in Workers |-> "loop"]
    /\ wjob = [w \in Workers |-> None]
    /\ wretry = [w \in Workers |-> TRUE]
    /\ wraised = [w \in Workers |-> None]
    /\ overran = {}
    /\ job_correlation_id = [w \in Workers |-> None]
    /\ worker_correlation_id = [w \in Workers |-> None]
    /\ shutdown_requested = [w \in Workers |-> FALSE]
    /\ openClaims = [j \in Jobs |-> 0]
    /\ nonRetryFailed = {}
    /\ claimsAfterSignal = [w \in Workers |-> 0]

\* Worker._handle_shutdown: run by the interpreter between any two steps of the
\* main thread once SIGTERM or SIGINT is delivered.
handle_shutdown(w) ==
    /\ wpc[w] \notin {"off", "stopped"}
    /\ ~shutdown_requested[w]
    /\ shutdown_requested' = [shutdown_requested EXCEPT ![w] = TRUE]
    /\ UNCHANGED <<libVars, rpcVars, dbNow, jobs, wpc, wjob, wretry, wraised, overran, dbTrace, dbHist>>

\* `while not self.shutdown_requested`; on exit the finally block closes the pools.
run_loop_test(w) ==
    /\ wpc[w] = "loop"
    /\ wpc' = [wpc EXCEPT ![w] = IF shutdown_requested[w] THEN "stopped" ELSE "claim"]
    /\ UNCHANGED <<libVars, rpcVars, dbNow, jobs, wjob, wretry, wraised, overran, dbTrace, shutdown_requested, dbHist>>

\* self.db.claim_next_job(worker_id) as run() calls it.  The statement is one
\* atomic UPDATE ... WHERE id = (SELECT ... FOR UPDATE SKIP LOCKED) RETURNING *;
\* with no row, or on a database error (caught and logged by the `except
\* Exception` of run()), the loop sleeps poll_interval_seconds and tests the
\* flag again; with a row, run() calls _execute_job, whose first lines choose
\* the correlation id and store it.
claim_next_job_with(w, candidates) ==
    /\ wpc[w] = "claim"
    /\ claimsAfterSignal' =
          [claimsAfterSignal EXCEPT ![w] =
              IF shutdown_requested[w] /\ @ < 2 THEN @ + 1 ELSE @]
    /\ \/ /\ candidates = {}
          /\ wpc' = [wpc EXCEPT ![w] = "loop"]
          /\ UNCHANGED <<jobs, wjob, openClaims, dbTrace>>
       \/ \E j \in candidates :
             /\ jobs' = claim_update(jobs, j, dbNow)
             /\ wjob' = [wjob EXCEPT ![w] = Some(j)]
             /\ openClaims' = [openClaims EXCEPT ![j] = IF @ < 2 THEN @ + 1 ELSE @]
             /\ wpc' = [wpc EXCEPT ![w] = "execute"]
             /\ execute_job_entry(w, jobs'[j], j)
       \/ /\ wpc' = [wpc EXCEPT ![w] = "loop"]
          /\ UNCHANGED <<jobs, wjob, openClaims, dbTrace>>
    /\ UNCHANGED <<libVars, rpcVars, dbNow, wretry, wraised, overran, shutdown_requested,
                   nonRetryFailed>>
claim_next_job_any_status(w) ==
    claim_next_job_with(w, {j \in Jobs : ClaimableAnyStatus(jobs[j], dbNow)})
claim_next_job(w) == claim_next_job_with(w, SelectNext(jobs, dbNow))

\* _execute_job from its entry to the end of handler.execute: the handler
\* lookup, the test of the clock against timeout_at, and the handler's run,
\* which takes some time and returns or raises.
execute_job(w) ==
    /\ wpc[w] = "execute"
    /\ LET j == Val(wjob[w])
           raise(e) ==
               /\ wraised' = [wraised EXCEPT ![w] = Some(e)]
               /\ wretry' = [wretry EXCEPT ![w] = retry_flag(e)]
               /\ nonRetryFailed' = IF retry_flag(e) THEN nonRetryFailed
                                    ELSE nonRetryFailed \cup {j}
               /\ wpc' = [wpc EXCEPT ![w] = "mark_failed"]
       IN
       IF jobs[j].name \notin handlers
       THEN raise(JobError("false")) /\ UNCHANGED overran
       ELSE \/ \* time.time() >= timeout_at before the handler is called
               /\ raise(JobTimeoutError)
               /\ UNCHANGED overran
            \/ \E ran \in RunTimes(jobs[j].name) :
                  /\ overran' = IF ran > job_timeout_seconds THEN overran \cup {w}
                                ELSE overran
                  /\ \/ /\ wpc' = [wpc EXCEPT ![w] = "mark_completed"]
                        /\ UNCHANGED <<wraised, wretry, nonRetryFailed>>
                     \/ \E e \in Raises(jobs[j].name) : raise(e)
    /\ UNCHANGED <<libVars, rpcVars, dbNow, jobs, wjob, dbTrace, shutdown_requested,
                   openClaims, claimsAfterSignal>>

\* self.db.mark_job_completed(...); a database error lands in `except Exception`.
execute_mark_completed(w) ==
    /\ wpc[w] = "mark_completed"
    /\ \/ /\ jobs' = write_correlation_id(mark_job_completed(jobs, Val(wjob[w]), dbNow),
                                           Val(wjob[w]), job_correlation_id[w])
          /\ wpc' = [wpc EXCEPT ![w] = "record_completed"]
          /\ UNCHANGED <<wraised, wretry>>
       \/ /\ wpc' = [wpc EXCEPT ![w] = "mark_failed"]
          /\ wraised' = [wraised EXCEPT ![w] = Some(OtherException)]
          /\ wretry' = [wretry EXCEPT ![w] = retry_flag(OtherException)]
          /\ UNCHANGED jobs
    /\ overran' = overran \ {w}
    /\ UNCHANGED <<libVars, rpcVars, dbNow, wjob, dbTrace, shutdown_requested, dbHist>>

\* self.db.record_execution(status="completed"), still inside the try block: a
\* database error lands in `except Exception`, which calls mark_job_failed
\* with retry=True.  On success `finally` ends _execute_job.
execute_record_completed(w) ==
    /\ wpc[w] = "record_completed"
    /\ \/ /\ wpc' = [wpc EXCEPT ![w] = "loop"]
          /\ wjob' = [wjob EXCEPT ![w] = None]
          /\ execute_job_finally(w)
          /\ UNCHANGED <<wraised, wretry>>
       \/ /\ wpc' = [wpc EXCEPT ![w] = "mark_failed"]
          /\ wraised' = [wraised EXCEPT ![w] = Some(OtherException)]
          /\ wretry' = [wretry EXCEPT ![w] = retry_flag(OtherException)]
          /\ UNCHANGED <<wjob, dbTrace>>
    /\ UNCHANGED <<libVars, rpcVars, dbNow, jobs, overran, shutdown_requested, dbHist>>

\* self.db.mark_job_failed(..., retry=...) in an except block; a database error
\* leaves _execute_job through `finally` and is logged by run(), which sleeps.
execute_mark_failed(w) ==
    /\ wpc[w] = "mark_failed"
    /\ LET j == Val(wjob[w]) IN
       \/ /\ jobs' = write_correlation_id(mark_job_failed(jobs, j, wretry[w], dbNow),
                                           j, job_correlation_id[w])
          /\ openClaims' = [openClaims EXCEPT ![j] =
                               IF jobs'[j].status = "pending" THEN @ - 1 ELSE @]
          /\ wpc' = [wpc EXCEPT ![w] = "record_failed"]
          /\ UNCHANGED <<wjob, wretry, dbTrace>>
       \/ /\ wpc' = [wpc EXCEPT ![w] = "loop"]
          /\ wjob' = [wjob EXCEPT ![w] = None]
          /\ wretry' = [wretry EXCEPT ![w] = TRUE]
          /\ execute_job_finally(w)
          /\ UNCHANGED <<jobs, openClaims>>
    /\ wraised' = [wraised EXCEPT ![w] = None]
    /\ overran' = overran \ {w}
    /\ UNCHANGED <<libVars, rpcVars, dbNow, shutdown_requested, nonRetryFailed,
                   claimsAfterSignal>>

\* self.db.record_execution(status="failed") in an except block, then `finally`;
\* a database error is logged by run(), which sleeps and goes on.
execute_record_failed(w) ==
    /\ wpc[w] = "record_failed"
    /\ wpc' = [wpc EXCEPT ![w] = "loop"]
    /\ wjob' = [wjob EXCEPT ![w] = None]
    /\ wretry' = [wretry EXCEPT ![w] = TRUE]
    /\ execute_job_finally(w)
    /\ UNCHANGED <<libVars, rpcVars, dbNow, jobs, wraised, overran, shutdown_requested,
                   dbHist>>

\* datetime.now(UTC) as the claim query reads it: the clock matters only while
\* a pending job is scheduled ahead of it.
DbTick ==
    /\ \E j \in Jobs :
          /\ jobs[j].status = "pending"
          /\ jobs[j].scheduledAt # None
          /\ Val(jobs[j].scheduledAt) > dbNow
    /\ dbNow' = dbNow + 1
    /\ UNCHANGED <<libVars, rpcVars, jobs, wpc, wjob, wretry, wraised, overran, dbTrace,
                   shutdown_requested, dbHist>>

\* The steps of worker w's own thread (the signal comes from outside).
WorkerStep(w) ==
    \/ run_loop_test(w)
    \/ claim_next_job(w)
    \/ execute_job(w)
    \/ execute_mark_completed(w)
    \/ execute_record_completed(w)
    \/ execute_mark_failed(w)
    \/ execute_record_failed(w)

DbNext ==
    \/ DbTick
    \/ \E w \in Workers :
          \/ handle_shutdown(w)
          \/ WorkerStep(w)

(***************************************************************************)
(*                        PART II : the RPC worker                         *)
(***************************************************************************)
RJobs == {1, 2}
WORKER_ID == "worker-py-1"
\* shutdown_timeout_s in Worker._shutdown
shutdown_timeout_s == 30

\* HandlerRegistry after register_handlers: one type, registered with a validator.
RegisteredTypes == {"connector.http.request"}
JobTypes == {"connector.http.request", "no.such.type"}

(* -------------------- the queue store (RPC surface) --------------------- *)
Kind(err) == IF "kind" \in DOMAIN err THEN err.kind ELSE "absent"
RetryableFlag(err) ==
    IF "retryable" \in DOMAIN err THEN (IF err.retryable THEN "true" ELSE "false")
    ELSE "absent"

StoreRow(t, v, m) ==
    [type |-> t, valid |-> v, status |-> "queued", attempts |-> 0,
     max_attempts |-> m, locked_by |-> None]

\* claim(worker_id, limit): the first `limit` claimable rows, in id order.
StoreClaimable(st) ==
    {j \in RJobs : st[j].status = "queued" /\ st[j].attempts < st[j].max_attempts}
StoreClaimSet(st, limit) ==
    {j \in StoreClaimable(st) :
        Cardinality({k \in StoreClaimable(st) : k < j}) < limit}
StoreClaim(st, worker, limit) ==
    [j \in RJobs |->
        IF j \in StoreClaimSet(st, limit)
        THEN [st[j] EXCEPT !.status = "running", !.locked_by = Some(worker),
                           !.attempts = @ + 1]
        ELSE st[j]]

\* complete(job_id, worker_id, status, error): rejected unless the lease is owned.
StoreOwns(st, j, worker) == st[j].status = "running" /\ st[j].locked_by = Some(worker)
StoreComplete(st, j, status, err) ==
    IF status = "succeeded"
    THEN [st EXCEPT ![j].status = "succeeded", ![j].locked_by = None]
    ELSE IF RetryableFlag(err) # "false" /\ st[j].attempts < st[j].max_attempts
         THEN [st EXCEPT ![j].status = "queued", ![j].locked_by = None]
         ELSE [st EXCEPT ![j].status = "dead", ![j].locked_by = None]

(* ------------------- JobForgeClient as the worker uses it --------------- *)
\* _rpc: the call reaches the store (net = "up") or fails in transport; a
\* rejected call (HTTP >= 400) and a transport failure both raise.
CompleteRaises(st, j, net) == net = "down" \/ ~StoreOwns(st, j, WORKER_ID)
CompleteStore(st, j, status, err, net) ==
    IF CompleteRaises(st, j, net) THEN st ELSE StoreComplete(st, j, status, err)

(* ------------------------------- Logger --------------------------------- *)
\* Logger.child: Logger({**self.context, **context}); the new keys win.
child(ctx, extra) == extra @@ ctx
\* Logger._log: the entry {"level", "message", **self.context, **extra}.
log_entry(ctx, level, message, extra) ==
    extra @@ ctx @@ [level |-> level, message |-> message]
NoExtra == [k \in {} |-> k]
\* The trace id an entry (or a logger's context) carries, if any.
TraceOf(entry) == IF "trace_id" \in DOMAIN entry THEN Some(entry.trace_id) ELSE None
\* Worker.logger = logger.child({"worker_id": worker_id})
self_logger == [worker_id |-> WORKER_ID]

\* str(uuid4()): a value no earlier call returned.
uuid4_once_per_worker(calls) == 1
uuid4(calls) == calls + 1

(* ----------------------- error dicts of _process_job -------------------- *)
\* `except Exception`: {"error": str(e), "type": type(e).__name__, "traceback": ...}
ErrorData(msg, type) == [error |-> msg, type |-> type]
\* `except asyncio.TimeoutError`: {"error": "Handler timeout", "timeout_s": ...}
TimeoutData(t) == [error |-> "Handler timeout", timeout_s |-> t]
NoError == [error |-> "none"]

(* ------------------------------ Worker ---------------------------------- *)
\* The process right after Worker(...) was built and run() was called.
RpcInitWith(cfgs, rows, pc) ==
    /\ rcfg \in cfgs
    /\ store \in [RJobs -> rows]
    /\ mpc = pc
    /\ running = FALSE
    /\ shutting_down = FALSE
    /\ batch = {}
    /\ sleepLeft = 0
    /\ drainElapsed = 0
    /\ active_jobs = {}
    /\ heartbeat_tasks = {}
    /\ epc = [j \in RJobs |-> "none"]
    /\ hstate = [j \in RJobs |-> "none"]
    /\ hb = [j \in RJobs |-> "none"]
    /\ handlerLeft = [j \in RJobs |-> None]
    /\ timeoutLeft = [j \in RJobs |-> 0]
    /\ hbLeft = [j \in RJobs |-> 0]
    /\ completeCalls = [j \in RJobs |-> 0]
    /\ lastError = [j \in RJobs |-> NoError]
    /\ handlerInvoked = {}
    /\ succeededOk = {}
    /\ lateHeartbeat = {}
    /\ heartbeated = {}
    /\ claimsAfterSig = 0
    /\ sinceSignal = None
    /\ waited = [j \in RJobs |-> 0]
    /\ hbCount = [j \in RJobs |-> 0]
    /\ hbFailed = [j \in RJobs |-> 0]
    /\ onceClaims = 0
    /\ claim_failed = FALSE
    /\ uuid_calls = 0
    /\ trace_id = [j \in RJobs |-> None]
    /\ context = [j \in RJobs |-> None]
    /\ job_logger = [j \in RJobs |-> None]
    /\ logs = [j \in RJobs |-> {}]

\* run(): self.running = True, the start log, _setup_signal_handlers().
run ==
    /\ mpc = "run"
    /\ running' = TRUE
    /\ mpc' = "loop_test"
    /\ UNCHANGED <<libVars, dbVars, claim_failed, rcfg, store, shutting_down, batch, sleepLeft, drainElapsed,
                   rTasks, rTimers, rHist, rClock, onceClaims, rTrace>>

\* handle_signal, run by the interpreter between any two steps of the main
\* thread once SIGINT or SIGTERM is delivered.
handle_signal ==
    /\ mpc \notin {"off", "run", "stopped"}
    /\ sinceSignal = None
    /\ IF ~shutting_down
       THEN shutting_down' = TRUE /\ running' = FALSE
       ELSE UNCHANGED <<shutting_down, running>>
    /\ sinceSignal' = Some(0)
    /\ UNCHANGED <<libVars, dbVars, claim_failed, rcfg, store, mpc, batch, sleepLeft, drainElapsed,
                   rTasks, rTimers, completeCalls, lastError, handlerInvoked,
                   succeededOk, lateHeartbeat, heartbeated, claimsAfterSig, rClock, onceClaims, rTrace>>

\* `while self.running and not self.shutting_down`
run_while ==
    /\ mpc = "loop_test"
    /\ mpc' = IF running /\ ~shutting_down THEN "claim" ELSE "shutdown"
    /\ onceClaims' = 0
    /\ UNCHANGED <<libVars, dbVars, claim_failed, rcfg, store, running, shutting_down, batch, sleepLeft,
                   drainElapsed, rTasks, rTimers, rHist, rClock, rTrace>>

\* run_once up to asyncio.gather: the claim_jobs call with
\* ClaimJobsParams(worker_id=self.worker_id, limit=self.claim_limit); on an
\* error (logged) or an empty answer run_once returns, else one _process_job
\* task per job is made.
ClaimJobsParamsUnlimited(cfg) == [worker_id |-> WORKER_ID, limit |-> Cardinality(RJobs)]
ClaimJobsParams(cfg) == [worker_id |-> WORKER_ID, limit |-> cfg.claim_limit]
run_once ==
    /\ mpc = "claim"
    /\ claimsAfterSig' = IF sinceSignal # None /\ claimsAfterSig < 2
                         THEN claimsAfterSig + 1 ELSE claimsAfterSig
    /\ \E net \in {"up", "down"} :
          LET params == ClaimJobsParams(rcfg)
              got == IF net = "up" THEN StoreClaimSet(store, params.limit) ELSE {}
          IN
          /\ store' = IF net = "up" THEN StoreClaim(store, params.worker_id, params.limit)
                      ELSE store
          /\ batch' = got
          /\ epc' = [j \in RJobs |-> IF j \in got THEN "start" ELSE epc[j]]
          /\ mpc' = IF net = "down" THEN "once_error"
                    ELSE IF got = {} THEN "after_once" ELSE "gather"
          /\ claim_failed' = (net = "down")
          /\ completeCalls' = [j \in RJobs |-> IF j \in got THEN 0 ELSE completeCalls[j]]
          /\ lastError' = [j \in RJobs |-> IF j \in got THEN NoError ELSE lastError[j]]
          /\ handlerInvoked' = handlerInvoked \ got
          /\ heartbeated' = heartbeated \ got
    /\ onceClaims' = onceClaims + 1
    /\ UNCHANGED <<libVars, dbVars, rcfg, running, shutting_down, sleepLeft, drainElapsed,
                   active_jobs, heartbeat_tasks, hstate, hb, rTimers,
                   succeededOk, lateHeartbeat, sinceSignal, rClock, rTrace>>

\* `except Exception` of run_once after claim_jobs raised: the error is logged
\* and run_once returns.
run_once_raising ==
    /\ mpc = "once_error"
    /\ mpc' = "stopped"
    /\ UNCHANGED <<libVars, dbVars, claim_failed, rcfg, store, running, shutting_down, batch,
                   sleepLeft, drainElapsed, rTasks, rTimers, rHist, rClock, onceClaims, rTrace>>
run_once_except ==
    /\ mpc = "once_error"
    /\ mpc' = "after_once"
    /\ UNCHANGED <<libVars, dbVars, claim_failed, rcfg, store, running, shutting_down, batch,
                   sleepLeft, drainElapsed, rTasks, rTimers, rHist, rClock, onceClaims, rTrace>>

\* asyncio.gather(..., return_exceptions=True) returns once every task is done.
GatheredFirst == \E j \in batch : epc[j] = "done"
GatheredOrSignalled == shutting_down \/ \A j \in batch : epc[j] = "done"
Gathered == \A j \in batch : epc[j] = "done"
run_once_gathered ==
    /\ mpc = "gather"
    /\ Gathered
    /\ epc' = [j \in RJobs |-> IF j \in batch THEN "none" ELSE epc[j]]
    /\ batch' = {}
    /\ mpc' = "after_once"
    /\ UNCHANGED <<libVars, dbVars, claim_failed, rcfg, store, running, shutting_down, sleepLeft, drainElapsed,
                   active_jobs, heartbeat_tasks, hstate, hb, rTimers, rHist, rClock, onceClaims, rTrace>>

\* `if not self.shutting_down: await asyncio.sleep(self.poll_interval_s)`
run_sleep ==
    /\ mpc = "after_once"
    /\ IF ~shutting_down
       THEN mpc' = "sleep" /\ sleepLeft' = rcfg.poll_interval_s
       ELSE mpc' = "loop_test" /\ UNCHANGED sleepLeft
    /\ UNCHANGED <<libVars, dbVars, claim_failed, rcfg, store, running, shutting_down, batch, drainElapsed,
                   rTasks, rTimers, rHist, rClock, onceClaims, rTrace>>

run_wake ==
    /\ mpc = "sleep"
    /\ sleepLeft = 0
    /\ mpc' = "loop_test"
    /\ UNCHANGED <<libVars, dbVars, claim_failed, rcfg, store, running, shutting_down, batch, sleepLeft,
                   drainElapsed, rTasks, rTimers, rHist, rClock, onceClaims, rTrace>>

\* _shutdown: one test of the drain loop, which sleeps one second while jobs are
\* active and 30 s have not passed, then cancels the heartbeat tasks that are
\* left, closes the client and logs "Worker stopped".
shutdown ==
    /\ mpc \in {"shutdown", "drain"}
    /\ sleepLeft = 0
    /\ LET elapsed == IF mpc = "shutdown" THEN 0 ELSE drainElapsed IN
       IF active_jobs # {} /\ elapsed < shutdown_timeout_s
       THEN /\ mpc' = "drain"
            /\ sleepLeft' = 1
            /\ drainElapsed' = elapsed
            /\ UNCHANGED hb
       ELSE /\ mpc' = "stopped"
            /\ hb' = [j \in RJobs |->
                        IF j \in heartbeat_tasks /\ hb[j] # "done"
                        THEN "cancelling" ELSE hb[j]]
            /\ UNCHANGED <<sleepLeft, drainElapsed>>
    /\ UNCHANGED <<libVars, dbVars, claim_failed, rcfg, store, running, shutting_down, batch,
                   active_jobs, heartbeat_tasks, epc, hstate, rTimers, rHist, rClock, onceClaims, rTrace>>

(* ----------------------------- _process_job ----------------------------- *)
\* The tail shared by the except blocks: _complete_job_failed(job_id, err),
\* which issues complete_job(FAILED) once and only logs if that raises, then
\* the `finally` block up to `await heartbeat_task`.
ReportFailedSkipped(j, err, st, calls, emitted) ==
    UNCHANGED <<store, logs, completeCalls, lastError>>
ReportFailed(j, err, st, calls, emitted) ==
    /\ \E net \in {"up", "down"} :
          /\ store' = CompleteStore(st, j, "failed", err, net)
          /\ logs' = [logs EXCEPT ![j] =
                         IF CompleteRaises(st, j, net)
                         THEN emitted \cup {log_entry(self_logger, "error",
                                                      "Failed to mark job as failed",
                                                      [error |-> "RPC call failed"])}
                         ELSE emitted]
    /\ completeCalls' = [completeCalls EXCEPT ![j] = IF calls < 2 THEN calls + 1 ELSE calls]
    /\ lastError' = [lastError EXCEPT ![j] = err]

\* _process_job from its first line to its first suspension: registers the job,
\* creates the heartbeat task, looks the handler up, validates the payload and
\* hands the handler to a thread under asyncio.wait_for.
process_job(j) ==
    /\ epc[j] = "start"
    /\ active_jobs' = active_jobs \cup {j}
    /\ heartbeat_tasks' = heartbeat_tasks \cup {j}
    /\ LET t == uuid4(uuid_calls)
           jl == child(self_logger,
                       [trace_id |-> t, job_id |-> j, job_type |-> store[j].type])
           started == log_entry(jl, "info", "Processing job started", NoExtra)
           msg == IF store[j].type \notin RegisteredTypes
                  THEN "No handler registered for job type"
                  ELSE "Payload validation failed"
       IN
       /\ uuid_calls' = uuid_calls + 1
       /\ trace_id' = [trace_id EXCEPT ![j] = Some(t)]
       /\ job_logger' = [job_logger EXCEPT ![j] = Some(jl)]
       /\ IF store[j].type \notin RegisteredTypes \/ ~store[j].valid
          THEN /\ ReportFailed(j, ErrorData(msg, "ValueError"), store, completeCalls[j],
                               {started, log_entry(jl, "error", "Job failed",
                                                   [error |-> msg])})
               /\ hb' = [hb EXCEPT ![j] = "cancelling"]
               /\ epc' = [epc EXCEPT ![j] = "await_heartbeat"]
               /\ UNCHANGED <<hstate, handlerLeft, timeoutLeft, handlerInvoked, context>>
          ELSE /\ hb' = [hb EXCEPT ![j] = "created"]
               /\ hstate' = [hstate EXCEPT ![j] = "running"]
               /\ \E d \in rcfg.durations : handlerLeft' = [handlerLeft EXCEPT ![j] = d]
               /\ timeoutLeft' = [timeoutLeft EXCEPT ![j] = rcfg.timeout_s]
               /\ handlerInvoked' = handlerInvoked \cup {j}
               /\ context' = [context EXCEPT ![j] = Some([job_id |-> j, trace_id |-> t])]
               /\ logs' = [logs EXCEPT ![j] = {started}]
               /\ epc' = [epc EXCEPT ![j] = "await_handler"]
               /\ UNCHANGED <<store, completeCalls, lastError>>
    /\ waited' = [waited EXCEPT ![j] = 0]
    /\ hbCount' = [hbCount EXCEPT ![j] = 0]
    /\ hbFailed' = [hbFailed EXCEPT ![j] = 0]
    /\ UNCHANGED <<libVars, dbVars, claim_failed, rcfg, rMain, hbLeft, succeededOk, lateHeartbeat,
                   heartbeated, claimsAfterSig, sinceSignal, onceClaims>>

\* The handler thread returns its result or raises.
handler(j) ==
    /\ hstate[j] = "running"
    /\ handlerLeft[j] = Some(0)
    /\ \E r \in {"returned", "raised"} : hstate' = [hstate EXCEPT ![j] = r]
    /\ handlerLeft' = [handlerLeft EXCEPT ![j] = None]
    /\ UNCHANGED <<libVars, dbVars, claim_failed, rcfg, store, rMain, active_jobs, heartbeat_tasks, epc, hb,
                   timeoutLeft, hbLeft, rHist, rClock, onceClaims, rTrace>>

\* asyncio.wait_for(..., timeout=registration.timeout_s) raises TimeoutError
\* when the timeout has passed, whether or not the handler thread has returned.
TimedOutOnceHandlerReturned(j) == timeoutLeft[j] = 0 /\ hstate[j] # "running"
TimedOutNever(j) == FALSE
TimedOut(j) == timeoutLeft[j] = 0

\* _process_job resumed by asyncio.wait_for: with the handler's result it calls
\* complete_job(SUCCEEDED), and if that raises, `except Exception` reports the
\* job failed; with the handler's exception or a timeout it reports the job
\* failed.  Then `finally` cancels the heartbeat task and awaits it.
process_job_resumed(j) ==
    /\ epc[j] = "await_handler"
    /\ LET jl == Val(job_logger[j])
           failed(msg) == logs[j] \cup {log_entry(jl, "error", "Job failed", [error |-> msg])}
       IN
       \/ /\ hstate[j] = "returned"
          /\ \E net \in {"up", "down"} :
                IF CompleteRaises(store, j, net)
                THEN /\ ReportFailed(j, ErrorData("RPC call failed", "JobForgeError"),
                                     store, completeCalls[j] + 1, failed("RPC call failed"))
                     /\ UNCHANGED succeededOk
                ELSE /\ store' = StoreComplete(store, j, "succeeded", NoError)
                     /\ completeCalls' = [completeCalls EXCEPT ![j] = @ + 1]
                     /\ succeededOk' = succeededOk \cup {j}
                     /\ logs' = [logs EXCEPT ![j] =
                                    @ \cup {log_entry(jl, "info", "Job succeeded", NoExtra)}]
                     /\ UNCHANGED lastError
       \/ /\ hstate[j] = "raised"
          /\ ReportFailed(j, ErrorData("handler error", "Exception"),
                          store, completeCalls[j], failed("handler error"))
          /\ UNCHANGED succeededOk
       \/ /\ TimedOut(j)
          /\ ReportFailed(j, TimeoutData(rcfg.timeout_s), store, completeCalls[j],
                          logs[j] \cup {log_entry(jl, "error", "Job timeout", NoExtra)})
          /\ UNCHANGED succeededOk
    /\ hb' = [hb EXCEPT ![j] = "cancelling"]
    /\ epc' = [epc EXCEPT ![j] = "await_heartbeat"]
    /\ hstate' = [hstate EXCEPT ![j] = IF @ = "running" THEN "abandoned" ELSE @]
    /\ handlerLeft' = [handlerLeft EXCEPT ![j] = None]
    /\ timeoutLeft' = [timeoutLeft EXCEPT ![j] = 0]
    /\ waited' = [waited EXCEPT ![j] = 0]
    /\ hbCount' = [hbCount EXCEPT ![j] = 0]
    /\ hbFailed' = [hbFailed EXCEPT ![j] = 0]
    /\ UNCHANGED <<libVars, dbVars, claim_failed, rcfg, rMain, active_jobs, heartbeat_tasks, hbLeft,
                   handlerInvoked, lateHeartbeat, heartbeated, claimsAfterSig, sinceSignal,
                   onceClaims, uuid_calls, trace_id, context, job_logger>>

\* The end of `finally`, once the cancelled heartbeat task is done.
process_job_finally_keeping(j) ==
    /\ epc[j] = "await_heartbeat"
    /\ hb[j] = "done"
    /\ epc' = [epc EXCEPT ![j] = "done"]
    /\ hb' = [hb EXCEPT ![j] = "none"]
    /\ hstate' = [hstate EXCEPT ![j] = "none"]
    /\ trace_id' = [trace_id EXCEPT ![j] = None]
    /\ context' = [context EXCEPT ![j] = None]
    /\ job_logger' = [job_logger EXCEPT ![j] = None]
    /\ logs' = [logs EXCEPT ![j] = {}]
    /\ UNCHANGED <<libVars, dbVars, claim_failed, rcfg, store, rMain, active_jobs,
                   heartbeat_tasks, rTimers, rHist, rClock, onceClaims, uuid_calls>>
process_job_finally_cancelling(j) ==
    /\ epc[j] = "await_heartbeat"
    /\ hb[j] = "done"
    /\ LET gone == IF lastError[j] # NoError THEN batch ELSE {j} IN
       /\ heartbeat_tasks' = heartbeat_tasks \ gone
       /\ active_jobs' = active_jobs \ gone
       /\ epc' = [k \in RJobs |-> IF k \in gone THEN "done" ELSE epc[k]]
       /\ hb' = [k \in RJobs |-> IF k \in gone THEN "none" ELSE hb[k]]
       /\ hstate' = [k \in RJobs |-> IF k \in gone THEN "none" ELSE hstate[k]]
       /\ trace_id' = [k \in RJobs |-> IF k \in gone THEN None ELSE trace_id[k]]
       /\ context' = [k \in RJobs |-> IF k \in gone THEN None ELSE context[k]]
       /\ job_logger' = [k \in RJobs |-> IF k \in gone THEN None ELSE job_logger[k]]
       /\ logs' = [k \in RJobs |-> IF k \in gone THEN {} ELSE logs[k]]
    /\ UNCHANGED <<libVars, dbVars, claim_failed, rcfg, store, rMain, rTimers, rHist, rClock,
                   onceClaims, uuid_calls>>
process_job_finally(j) ==
    /\ epc[j] = "await_heartbeat"
    /\ hb[j] = "done"
    /\ heartbeat_tasks' = heartbeat_tasks \ {j}
    /\ active_jobs' = active_jobs \ {j}
    /\ epc' = [epc EXCEPT ![j] = "done"]
    /\ hb' = [hb EXCEPT ![j] = "none"]
    /\ hstate' = [hstate EXCEPT ![j] = "none"]
    /\ trace_id' = [trace_id EXCEPT ![j] = None]
    /\ context' = [context EXCEPT ![j] = None]
    /\ job_logger' = [job_logger EXCEPT ![j] = None]
    /\ logs' = [logs EXCEPT ![j] = {}]
    /\ UNCHANGED <<libVars, dbVars, claim_failed, rcfg, store, rMain, rTimers, rHist, rClock, onceClaims,
                   uuid_calls>>

(* ---------------------------- _heartbeat_loop --------------------------- *)
\* The task's first step: it enters the loop and sleeps heartbeat_interval_s.
heartbeat_loop_start(j) ==
    /\ hb[j] = "created"
    /\ hb' = [hb EXCEPT ![j] = "sleeping"]
    /\ hbLeft' = [hbLeft EXCEPT ![j] = rcfg.heartbeat_interval_s]
    /\ UNCHANGED <<libVars, dbVars, claim_failed, rcfg, store, rMain, active_jobs, heartbeat_tasks, epc, hstate,
                   handlerLeft, timeoutLeft, rHist, rClock, onceClaims, rTrace>>

\* One turn of the loop after the sleep: heartbeat_job, whose outcome changes
\* nothing in the worker (a failure is only logged), then the next sleep.
HeartbeatDueUnlessBlocked(j) ==
    hb[j] = "sleeping" /\ hbLeft[j] = 0 /\ \A k \in RJobs : hstate[k] # "running"
HeartbeatDue(j) == hb[j] = "sleeping" /\ hbLeft[j] = 0
HeartbeatDueThoughCancelled(j) == hb[j] \in {"sleeping", "cancelling"} /\ hbLeft[j] = 0
heartbeat_loop_with(j, due) ==
    /\ due
    /\ hbLeft' = [hbLeft EXCEPT ![j] = rcfg.heartbeat_interval_s]
    /\ heartbeated' = heartbeated \cup {j}
    /\ lateHeartbeat' = IF j \in succeededOk THEN lateHeartbeat \cup {j} ELSE lateHeartbeat
    /\ hbCount' = [hbCount EXCEPT ![j] =
                      IF epc[j] = "await_handler" /\ @ <= rcfg.timeout_s THEN @ + 1 ELSE @]
    /\ \E net \in {"up", "down"} :
          /\ logs' = [logs EXCEPT ![j] =
                         IF net = "down"
                         THEN @ \cup {log_entry(Val(job_logger[j]), "warn", "Heartbeat failed",
                                                [error |-> "RPC call failed"])}
                         ELSE @]
          /\ hbFailed' = [hbFailed EXCEPT ![j] =
                             IF net = "down" /\ epc[j] = "await_handler" /\ @ < 2
                             THEN @ + 1 ELSE @]
    /\ UNCHANGED <<libVars, dbVars, claim_failed, rcfg, store, rMain, rTasks, handlerLeft, timeoutLeft,
                   completeCalls, lastError, handlerInvoked, succeededOk,
                   claimsAfterSig, sinceSignal, waited, onceClaims,
                   uuid_calls, trace_id, context, job_logger>>
heartbeat_loop_giving_up(j) ==
    /\ HeartbeatDue(j)
    /\ hbLeft' = [hbLeft EXCEPT ![j] = rcfg.heartbeat_interval_s]
    /\ heartbeated' = heartbeated \cup {j}
    /\ lateHeartbeat' = IF j \in succeededOk THEN lateHeartbeat \cup {j} ELSE lateHeartbeat
    /\ hbCount' = [hbCount EXCEPT ![j] =
                      IF epc[j] = "await_handler" /\ @ <= rcfg.timeout_s THEN @ + 1 ELSE @]
    /\ \E net \in {"up", "down"} :
          /\ logs' = [logs EXCEPT ![j] =
                         IF net = "down"
                         THEN @ \cup {log_entry(Val(job_logger[j]), "warn", "Heartbeat failed",
                                                [error |-> "RPC call failed"])}
                         ELSE @]
          /\ hbFailed' = [hbFailed EXCEPT ![j] =
                             IF net = "down" /\ epc[j] = "await_handler" /\ @ < 2
                             THEN @ + 1 ELSE @]
          /\ hb' = [hb EXCEPT ![j] = IF net = "down" THEN "done" ELSE @]
    /\ UNCHANGED <<libVars, dbVars, claim_failed, rcfg, store, rMain, active_jobs,
                   heartbeat_tasks, epc, hstate, handlerLeft, timeoutLeft,
                   completeCalls, lastError, handlerInvoked, succeededOk,
                   claimsAfterSig, sinceSignal, waited, onceClaims,
                   uuid_calls, trace_id, context, job_logger>>
heartbeat_loop_deaf(j) == heartbeat_loop_with(j, HeartbeatDueThoughCancelled(j))
heartbeat_loop(j) == heartbeat_loop_with(j, HeartbeatDue(j))

\* CancelledError is thrown into the task at its sleep (or before its first
\* step) and ends it.
heartbeat_loop_cancelled(j) ==
    /\ hb[j] = "cancelling"
    /\ hb' = [hb EXCEPT ![j] = "done"]
    /\ hbLeft' = [hbLeft EXCEPT ![j] = 0]
    /\ UNCHANGED <<libVars, dbVars, claim_failed, rcfg, store, rMain, active_jobs, heartbeat_tasks, epc, hstate,
                   handlerLeft, timeoutLeft, rHist, rClock, onceClaims, rTrace>>

(* -------------------------------- time ---------------------------------- *)
\* A task that can take a step takes it before a second passes.
MainReady ==
    \/ mpc \in {"run", "loop_test", "claim", "once_error", "after_once", "shutdown"}
    \/ mpc = "gather" /\ Gathered
    \/ mpc \in {"sleep", "drain"} /\ sleepLeft = 0
TaskReady(j) ==
    \/ epc[j] = "start"
    \/ epc[j] = "await_handler" /\ (hstate[j] \in {"returned", "raised"} \/ TimedOut(j))
    \/ epc[j] = "await_heartbeat" /\ hb[j] = "done"
    \/ hb[j] \in {"created", "cancelling"}
    \/ HeartbeatDue(j)
    \/ hstate[j] = "running" /\ handlerLeft[j] = Some(0)
Dec(n) == IF n > 0 THEN n - 1 ELSE 0
Tick ==
    /\ mpc \notin {"off", "stopped"}
    /\ ~MainReady
    /\ \A j \in RJobs : ~TaskReady(j)
    /\ sleepLeft' = Dec(sleepLeft)
    /\ drainElapsed' = IF mpc = "drain" /\ drainElapsed < shutdown_timeout_s
                       THEN drainElapsed + 1 ELSE drainElapsed
    /\ handlerLeft' = [j \in RJobs |->
                         IF handlerLeft[j] = None THEN None ELSE Some(Dec(Val(handlerLeft[j])))]
    /\ timeoutLeft' = [j \in RJobs |-> Dec(timeoutLeft[j])]
    /\ hbLeft' = [j \in RJobs |-> Dec(hbLeft[j])]
    /\ sinceSignal' = IF sinceSignal = None \/ Val(sinceSignal) > shutdown_timeout_s + 1
                      THEN sinceSignal ELSE Some(Val(sinceSignal) + 1)
    /\ waited' = [j \in RJobs |->
                     IF epc[j] = "await_handler"
                        /\ waited[j] <= rcfg.timeout_s + rcfg.heartbeat_interval_s
                     THEN waited[j] + 1 ELSE waited[j]]
    /\ UNCHANGED <<libVars, dbVars, claim_failed, rcfg, store, mpc, running, shutting_down, batch, rTasks,
                   completeCalls, lastError, handlerInvoked, succeededOk, lateHeartbeat,
                   heartbeated, claimsAfterSig, hbCount, hbFailed, onceClaims, rTrace>>

RpcNext ==
    \/ run
    \/ handle_signal
    \/ run_while
    \/ run_once
    \/ run_once_except
    \/ run_once_gathered
    \/ run_sleep
    \/ run_wake
    \/ shutdown
    \/ Tick
    \/ \E j \in RJobs :
          \/ process_job(j)
          \/ handler(j)
          \/ process_job_resumed(j)
          \/ process_job_finally(j)
          \/ heartbeat_loop_start(j)
          \/ heartbeat_loop(j)
          \/ heartbeat_loop_cancelled(j)

(***************************************************************************)
(* Part III: HandlerRegistry (lib/registry.py) and the correlation-id slot *)
(* (errors.py), each exercised by a caller making arbitrary calls.                  *)
(***************************************************************************)

\* The longest sequence of register calls, and of correlation-id calls, explored.
MaxCalls == 2
MaxOps == 4

(* --------------------------- HandlerRegistry ---------------------------- *)
\* HandlerRegistration.__init__: the four fields, stored as given.
HandlerRegistration(handler_fn, validate, timeout_s, max_attempts) ==
    [handler |-> handler_fn, validate |-> validate,
     timeout_s |-> timeout_s, max_attempts |-> max_attempts]
\* The arguments register is called with: validate absent or given, timeout_s
\* and max_attempts at their defaults (300.0, 5) or given.
Handlers == {"handler_a", "handler_b"}
Validators == {None, Some("validate_a")}
Timeouts == {300, 30}
Attempts == {5, 1}
NoCall == [op |-> "none", job_type |-> "", raised |-> FALSE, value |-> None]

\* register without the duplicate check: the later registration replaces the earlier.
register_overwriting(job_type, handler_fn, validate, timeout_s, max_attempts) ==
    /\ lib = "registry"
    /\ Len(register_calls) < MaxCalls
    /\ LET r == HandlerRegistration(handler_fn, validate, timeout_s, max_attempts) IN
       /\ register_calls' = Append(register_calls, [job_type |-> job_type, registration |-> r])
       /\ _handlers' = [_handlers EXCEPT ![job_type] = Some(r)]
       /\ result' = [op |-> "register", job_type |-> job_type, raised |-> FALSE,
                     value |-> None]
    /\ UNCHANGED <<dbVars, rpcVars, sdkVars, startVars, lib, _correlation_id, ops>>

\* HandlerRegistry.register
register(job_type, handler_fn, validate, timeout_s, max_attempts) ==
    /\ lib = "registry"
    /\ Len(register_calls) < MaxCalls
    /\ LET r == HandlerRegistration(handler_fn, validate, timeout_s, max_attempts) IN
       /\ register_calls' = Append(register_calls, [job_type |-> job_type, registration |-> r])
       /\ IF _handlers[job_type] # None
          THEN \* raise ValueError
               /\ result' = [op |-> "register", job_type |-> job_type, raised |-> TRUE,
                             value |-> None]
               /\ UNCHANGED _handlers
          ELSE /\ _handlers' = [_handlers EXCEPT ![job_type] = Some(r)]
               /\ result' = [op |-> "register", job_type |-> job_type, raised |-> FALSE,
                             value |-> None]
    /\ UNCHANGED <<dbVars, rpcVars, sdkVars, startVars, lib, _correlation_id, ops>>

\* HandlerRegistry.get: self._handlers.get(job_type)
get(job_type) ==
    /\ lib = "registry"
    /\ result' = [op |-> "get", job_type |-> job_type, raised |-> FALSE,
                  value |-> _handlers[job_type]]
    /\ UNCHANGED <<dbVars, rpcVars, sdkVars, startVars, lib, _handlers, register_calls, _correlation_id, ops>>

RegistryNext ==
    \E job_type \in JobTypes :
       \/ \E handler_fn \in Handlers, validate \in Validators,
             timeout_s \in Timeouts, max_attempts \in Attempts :
             register(job_type, handler_fn, validate, timeout_s, max_attempts)
       \/ get(job_type)

(* -------------------------- correlation-id slot ------------------------- *)
CorrelationIds == {"test-correlation-123", "test-correlation-456"}

\* set_correlation_id
set_correlation_id(correlation_id) ==
    /\ lib = "correlation"
    /\ Len(ops) < MaxOps
    /\ _correlation_id' = Some(correlation_id)
    /\ ops' = Append(ops, [op |-> "set", value |-> Some(correlation_id)])
    /\ UNCHANGED <<dbVars, rpcVars, sdkVars, startVars, lib, _handlers, register_calls, result>>

\* A clear that leaves the slot as it is.
clear_correlation_id_keeping ==
    /\ lib = "correlation"
    /\ Len(ops) < MaxOps
    /\ ops' = Append(ops, [op |-> "clear", value |-> None])
    /\ UNCHANGED <<dbVars, rpcVars, sdkVars, startVars, lib, _handlers, register_calls, result, _correlation_id>>

\* clear_correlation_id: _correlation_id.set(None)
clear_correlation_id ==
    /\ lib = "correlation"
    /\ Len(ops) < MaxOps
    /\ _correlation_id' = None
    /\ ops' = Append(ops, [op |-> "clear", value |-> None])
    /\ UNCHANGED <<dbVars, rpcVars, sdkVars, startVars, lib, _handlers, register_calls, result>>

\* get_current_correlation_id: _correlation_id.get()
get_current_correlation_id ==
    /\ lib = "correlation"
    /\ Len(ops) < MaxOps
    /\ ops' = Append(ops, [op |-> "get", value |-> _correlation_id])
    /\ UNCHANGED <<dbVars, rpcVars, sdkVars, startVars, lib, _handlers, register_calls, result, _correlation_id>>

CorrelationNext ==
    \/ \E correlation_id \in CorrelationIds : set_correlation_id(correlation_id)
    \/ clear_correlation_id
    \/ get_current_correlation_id

(* ------------------------- JobForgeClient._rpc -------------------------- *)
\* The RPC functions the client's methods call.
RpcFunctions ==
    {"jobforge_enqueue_job", "jobforge_claim_jobs", "jobforge_heartbeat_job",
     "jobforge_complete_job", "jobforge_cancel_job", "jobforge_reschedule_job",
     "jobforge_list_jobs"}
\* What self._client.post can give: an httpx.Response with a status code and a
\* body text, or an httpx transport error raised instead of a response.
StatusCodes == {200, 204, 399, 400, 500}
BodyTexts == {"null", "[]", "[{\"id\": 1}]", "bad request"}
TransportErrors == {"ConnectError", "ReadTimeout"}
Response(function, status_code, text) ==
    [function |-> function, error |-> "none", status_code |-> status_code, text |-> text]
PostRaised(function, error) ==
    [function |-> function, error |-> error, status_code |-> 0, text |-> ""]
NoResponse == PostRaised("", "none")
PostResults ==
    {Response(f, c, t) : f \in RpcFunctions, c \in StatusCodes, t \in BodyTexts}
        \cup {PostRaised(f, x) : f \in RpcFunctions, x \in TransportErrors}

\* response.json(): the decoded value, or nothing for a text that is no JSON.
JsonNull == [type |-> "null", items |-> << >>]
JsonArray(items) == [type |-> "array", items |-> items]
json(text) ==
    CASE text = "null" -> Some(JsonNull)
      [] text = "[]" -> Some(JsonArray(<< >>))
      [] text = "[{\"id\": 1}]" -> Some(JsonArray(<<1>>))
      [] OTHER -> None

Returned(value) == [raised |-> "none", value |-> value]
Raised(class) == [raised |-> class, value |-> JsonNull]
NoOutcome == Raised("")

\* JobForgeClient._rpc, given what self._client.post did: the post's own
\* exception passes through, a status >= 400 raises JobForgeError, otherwise
\* response.json() is returned (or raises).
rpc_result(r) ==
    IF r.error # "none" THEN Raised(r.error)
    ELSE IF r.status_code >= 400 THEN Raised("JobForgeError")
    ELSE IF json(r.text) = None THEN Raised("JSONDecodeError")
    ELSE Returned(Val(json(r.text)))

\* One call of _rpc.
_rpc ==
    /\ lib = "client"
    /\ \E r \in PostResults :
          /\ response' = r
          /\ rpc_outcome' = rpc_result(r)
    /\ UNCHANGED <<dbVars, rpcVars, startVars, lib, _handlers, register_calls, result,
                   _correlation_id, ops>>

ClientNext == _rpc

(* ------------- Worker.register_handler (the direct-DB worker) ----------- *)
\* The job names and handler classes of the example worker; a handler object
\* is an instance of a class, built by the caller or by the decorator.
JobNames == {"process_data", "send_email", "generate_report"}
HandlerClasses == {"ProcessDataHandler", "SendEmailHandler", "GenerateReportHandler"}
JobHandler(class, builder) == [class |-> class, built_by |-> builder]

\* Worker.register_handler: self.handlers[job_name] = handler, then a log
\* line; the call returns normally.
register_handler(job_name, handler_obj) ==
    /\ lib = "startup"
    /\ Len(registered) < MaxCalls
    /\ self_handlers' = [self_handlers EXCEPT ![job_name] = Some(handler_obj)]
    /\ registered' = Append(registered,
                            [job_name |-> job_name, handler |-> handler_obj,
                             raised |-> FALSE])
    /\ UNCHANGED <<dbVars, rpcVars, sdkVars, lib, _handlers, register_calls, result,
                   _correlation_id, ops>>
\* Worker.register(job_name) applied to a class: the decorator calls
\* register_handler(job_name, handler_class()).
register_decorator(job_name, handler_class) ==
    register_handler(job_name, JobHandler(handler_class, "decorator"))

StartupNext ==
    \/ \E n \in JobNames, c \in HandlerClasses : register_handler(n, JobHandler(c, "caller"))
    \/ \E n \in JobNames, c \in HandlerClasses : register_decorator(n, c)

\* HandlerRegistry.__init__, the ContextVar's default, and `self.handlers = {}`
\* of the direct-DB Worker.__init__.
LibInitWith(which) ==
    /\ lib = which
    /\ _handlers = [t \in JobTypes |-> None]
    /\ register_calls = << >>
    /\ result = NoCall
    /\ _correlation_id = None
    /\ ops = << >>
    /\ response = NoResponse
    /\ rpc_outcome = NoOutcome
    /\ self_handlers = [n \in JobNames |-> None]
    /\ registered = << >>

(***************************************************************************)
(*                            specifications                               *)
(***************************************************************************)
\* Rows as the enqueuing API leaves them.  A payload can fail validation only
\* where a validator is registered.
NewStoreRows ==
    {StoreRow(t, v, m) : t \in JobTypes, v \in BOOLEAN, m \in 1..MaxAttemptsBound}
        \ {StoreRow("no.such.type", FALSE, m) : m \in 1..MaxAttemptsBound}

\* Constructor arguments, in seconds.  Short: a handler can outlast its
\* timeout and a heartbeat interval.  Long: the defaults' proportions, with a
\* handler timeout beyond the shutdown grace.
ShortConfig ==
    [poll_interval_s |-> 1, heartbeat_interval_s |-> 2, claim_limit |-> 2,
     timeout_s |-> 3, durations |-> {Some(1), Some(2), None}]
LongConfig ==
    [poll_interval_s |-> 2, heartbeat_interval_s |-> 30, claim_limit |-> 1,
     timeout_s |-> 33, durations |-> {Some(1), None}]
\* Frequent: several heartbeats fall within one run of the handler.
FrequentConfig ==
    [poll_interval_s |-> 1, heartbeat_interval_s |-> 1, claim_limit |-> 1,
     timeout_s |-> 3, durations |-> {Some(2)}]

\* The other program is not running.
DbOff ==
    /\ dbNow = 0
    /\ jobs = [j \in Jobs |-> JobRow("process_data", 0, 1, None)]
    /\ wpc = [w \in Workers |-> "off"]
    /\ wjob = [w \in Workers |-> None]
    /\ wretry = [w \in Workers |-> TRUE]
    /\ wraised = [w \in Workers |-> None]
    /\ overran = {}
    /\ job_correlation_id = [w \in Workers |-> None]
    /\ worker_correlation_id = [w \in Workers |-> None]
    /\ shutdown_requested = [w \in Workers |-> FALSE]
    /\ openClaims = [j \in Jobs |-> 0]
    /\ nonRetryFailed = {}
    /\ claimsAfterSignal = [w \in Workers |-> 0]
RpcOff == RpcInitWith({ShortConfig}, {StoreRow("connector.http.request", TRUE, 1)}, "off")
RpcInit == RpcInitWith({ShortConfig, LongConfig, FrequentConfig}, NewStoreRows, "run")

LibOff == LibInitWith("off")

\* The direct-DB workers on one jobs table.
InitDB == DbInit /\ RpcOff /\ LibOff
SpecDB == InitDB /\ [][DbNext]_vars
\* The same, every worker process being scheduled as long as it can step.
SpecDBFair == InitDB /\ [][DbNext]_vars /\ \A w \in Workers : WF_vars(WorkerStep(w))
\* One RPC worker and its queue store.
InitRPC == DbOff /\ RpcInit /\ LibOff
SpecRPC == InitRPC /\ [][RpcNext]_vars
\* The same with the event loop running every task that can step, the
\* handler threads running, and time passing; signals come as they please.
\* The worker is built with the short configuration and no job has a second
\* attempt.
MainSteps ==
    run \/ run_while \/ run_once \/ run_once_except \/ run_once_gathered
        \/ run_sleep \/ run_wake \/ shutdown
JobSteps(j) ==
    process_job(j) \/ handler(j) \/ process_job_resumed(j) \/ process_job_finally(j)
        \/ heartbeat_loop_start(j) \/ heartbeat_loop(j) \/ heartbeat_loop_cancelled(j)
InitRPCFair ==
    /\ InitRPC
    /\ rcfg = ShortConfig
    /\ \A j \in RJobs : store[j].max_attempts = 1
SpecRPCFair ==
    /\ InitRPCFair /\ [][RpcNext]_vars
    /\ WF_vars(MainSteps)
    /\ \A j \in RJobs : WF_vars(JobSteps(j))
    /\ WF_vars(Tick)
\* One HandlerRegistry and its callers.
InitRegistry == DbOff /\ RpcOff /\ LibInitWith("registry")
SpecRegistry == InitRegistry /\ [][RegistryNext]_vars
\* The correlation-id slot of one context and its callers.
InitCorrelation == DbOff /\ RpcOff /\ LibInitWith("correlation")
SpecCorrelation == InitCorrelation /\ [][CorrelationNext]_vars
\* One JobForgeClient and its callers.
InitClient == DbOff /\ RpcOff /\ LibInitWith("client")
SpecClient == InitClient /\ [][ClientNext]_vars
\* Either worker: the direct-DB workers on a table of jobs that are run once
\* (no retry is left after the first failure, or no handler is registered),
\* or the RPC worker.
InitWorkers ==
    \/ InitDB /\ \A j \in Jobs : jobs[j].maxRetries = 1 \/ jobs[j].name = "unregistered"
    \/ InitRPC
WorkersNext == DbNext \/ RpcNext
SpecWorkers == InitWorkers /\ [][WorkersNext]_vars
\* One direct-DB Worker between its construction and run(), and the code
\* registering its handlers.
InitStartup == DbOff /\ RpcOff /\ LibInitWith("startup")
SpecStartup == InitStartup /\ [][StartupNext]_vars
\* Any of the programs.
Init == InitDB \/ InitRPC \/ InitRegistry \/ InitCorrelation \/ InitClient \/ InitStartup
Next == DbNext \/ RpcNext \/ RegistryNext \/ CorrelationNext \/ ClientNext \/ StartupNext
Spec == Init /\ [][Next]_vars

(***************************************************************************)
(*                               properties                                *)
(***************************************************************************)
\* A worker holds job j from the claim that returned it until the call that
\* ends the execution (mark_job_failed, or the record of a completed job).
Holds(w, j) ==
    /\ wjob[w] = Some(j)
    /\ wpc[w] \in {"execute", "mark_completed", "record_completed", "mark_failed"}

\* C1: claim_next_job hands a job to at most one worker per pending -> running
\* transition: a job is never returned by more claims than one plus the times
\* it went back to pending, no two workers hold the same job at once, and a
\* held job is not pending.
C1_ClaimIsExclusive ==
    \A j \in Jobs :
       /\ openClaims[j] \in {0, 1}
       /\ Cardinality({w \in Workers : Holds(w, j)}) <= 1
       /\ (\E w \in Workers : Holds(w, j)) => jobs[j].status \in {"running", "completed"}
\* Two workers have claimed from the same table and each holds its own job.
C1_Witness ==
    \E w1, w2 \in Workers :
       /\ w1 # w2
       /\ wpc[w1] = "execute" /\ wpc[w2] = "execute"
       /\ wjob[w1] # wjob[w2]

\* C2: _process_job issues at most one complete_job call per claimed attempt,
\* also when that call raises.
C2_OneTerminalCall == \A j \in RJobs : completeCalls[j] <= 1

\* C3: once mark_job_completed has set a job to completed, no later step moves
\* it to another status.
C3_CompletedIsAbsorbing ==
    [][\A j \in Jobs : jobs[j].status = "completed" => jobs'[j].status = "completed"]_vars

\* C4: retryCount never exceeds maxRetries, and a job whose retryCount has
\* reached maxRetries is failed for good (never pending, running or completed).
C4_RetryBound ==
    \A j \in Jobs :
       /\ jobs[j].retryCount <= jobs[j].maxRetries
       /\ jobs[j].retryCount = jobs[j].maxRetries => jobs[j].status = "failed"
\* A job with more than one retry has used them all.
C4_Witness ==
    \E j \in Jobs :
       /\ jobs[j].maxRetries > 1
       /\ jobs[j].retryCount = jobs[j].maxRetries
       /\ jobs[j].status = "failed"

\* C5: once the shutdown signal has been delivered to a worker, that worker
\* issues no further claim call.
C5_NoClaimAfterSignal ==
    /\ claimsAfterSig = 0
    /\ \A w \in Workers : claimsAfterSignal[w] = 0

\* C6: once the shutdown grace (30 s, and the one second of the drain loop's
\* sleep) has passed since the signal, the worker has stopped.
C6_StoppedWithinGrace ==
    (sinceSignal # None /\ Val(sinceSignal) > shutdown_timeout_s + 1) => mpc = "stopped"

\* C7: no heartbeat_job call is issued for a job after its
\* complete_job(succeeded) call returned normally.
C7_NoHeartbeatAfterSuccess == lateHeartbeat = {}
\* A job that was heartbeated while its handler ran has succeeded, and its
\* executor has finished.
C7_Witness ==
    \E j \in RJobs : j \in succeededOk /\ j \in heartbeated /\ epc[j] \in {"done", "none"}

\* C8: for a job without a registered handler no handler is invoked, the
\* failure reported is of kind NoHandler and non-retryable, and the job is not
\* queued for another attempt.
C8_NoHandlerIsTerminal ==
    \A j \in RJobs :
       store[j].type \notin RegisteredTypes =>
          /\ j \notin handlerInvoked
          /\ completeCalls[j] > 0 =>
                /\ Kind(lastError[j]) = "NoHandler"
                /\ RetryableFlag(lastError[j]) = "false"
          /\ store[j].attempts <= 1

\* C9: for a payload that fails validation the handler is not invoked, one
\* attempt is made, the failure reported is of kind ValidationFailed and
\* non-retryable, and the job is dead rather than queued again.
C9_ValidationFailureIsTerminal ==
    \A j \in RJobs :
       (store[j].type \in RegisteredTypes /\ ~store[j].valid) =>
          /\ j \notin handlerInvoked
          /\ completeCalls[j] > 0 =>
                /\ Kind(lastError[j]) = "ValidationFailed"
                /\ RetryableFlag(lastError[j]) = "false"
          /\ store[j].attempts <= 1
          /\ (store[j].attempts = 1 /\ store[j].status # "running") => store[j].status = "dead"

\* C10: a job whose execution failed with a non-retryable error is never
\* pending (so never claimed) again, whatever retries remain, and is failed as
\* soon as mark_job_failed has returned.
C10_NonRetryableIsFinal ==
    \A j \in nonRetryFailed :
       /\ jobs[j].status \in {"running", "failed"}
       /\ \A w \in Workers :
             (wpc[w] = "record_failed" /\ wjob[w] = Some(j) /\ ~wretry[w])
                => jobs[j].status = "failed"
\* A job with a handler and retries left is failed after a non-retryable error.
C10_Witness ==
    \E j \in nonRetryFailed :
       /\ jobs[j].name \in handlers
       /\ jobs[j].status = "failed"
       /\ jobs[j].retryCount + 1 < jobs[j].maxRetries

\* C11: an executor awaits its handler no longer than the registration's
\* timeout_s plus one heartbeat interval before it reports the job failed; a
\* handler that has not returned by then is left behind with the one
\* "Handler timeout" report issued; and while the handler is awaited one
\* heartbeat is issued per elapsed heartbeat interval.
C11_TimeoutReported ==
    \A j \in RJobs :
       /\ epc[j] = "await_handler" =>
             waited[j] <= rcfg.timeout_s + rcfg.heartbeat_interval_s
       /\ hstate[j] = "abandoned" =>
             /\ lastError[j] = TimeoutData(rcfg.timeout_s)
             /\ completeCalls[j] = 1
       /\ (epc[j] = "await_handler" /\ hb[j] = "sleeping") =>
             hbCount[j] * rcfg.heartbeat_interval_s
                + (rcfg.heartbeat_interval_s - hbLeft[j]) = waited[j]
\* A handler that never returns was timed out after a heartbeat was issued.
C11_Witness ==
    \E j \in RJobs :
       /\ hstate[j] = "abandoned"
       /\ j \in heartbeated
       /\ lastError[j] = TimeoutData(rcfg.timeout_s)

\* C12: a job left running with no worker holding it (its worker died, or the
\* terminal write failed) is eventually held by a worker again, unless every
\* worker has stopped.
C12_RunningIsReclaimed ==
    \A j \in Jobs :
       (jobs[j].status = "running" /\ \A w \in Workers : ~Holds(w, j))
          ~> \/ \E w \in Workers : Holds(w, j)
             \/ \A w \in Workers : wpc[w] = "stopped"

\* C13: a job marked completed after k retryable failures stays completed with
\* its k recorded failures (it is not executed again), and a job that has
\* failed maxRetries times stays failed.
C13_RetriesThenSuccess ==
    [][\A j \in Jobs :
          /\ jobs[j].status = "completed" =>
                /\ jobs'[j].status = "completed"
                /\ jobs'[j].retryCount = jobs[j].retryCount
          /\ jobs[j].retryCount = jobs[j].maxRetries =>
                /\ jobs'[j].status = "failed"
                /\ jobs'[j].retryCount = jobs[j].retryCount]_vars

\* C14: mark_job_completed and mark_job_failed, called by a worker for a job
\* it does not hold or that is not running, leave the table unchanged.
C14_UnclaimedTransitionRejected ==
    \A w \in Workers, j \in Jobs :
       (~Holds(w, j) \/ jobs[j].status # "running") =>
          /\ mark_job_completed(jobs, j, dbNow) = jobs
          /\ \A retry \in BOOLEAN : mark_job_failed(jobs, j, retry, dbNow) = jobs

\* C15: the job a claim_next_job call returns was, when the call was made,
\* pending, due (scheduledAt null or not after now) and short of maxRetries.
C15_ClaimReturnsClaimable ==
    [][\A w \in Workers :
          (wpc[w] = "claim" /\ wpc'[w] = "execute") =>
             LET j == Val(wjob'[w]) IN
             /\ jobs[j].status = "pending"
             /\ (jobs[j].scheduledAt = None \/ Val(jobs[j].scheduledAt) <= dbNow)
             /\ jobs[j].retryCount < jobs[j].maxRetries
             /\ jobs'[j].status = "running"]_vars
\* The younger job was claimed while the older one is still scheduled ahead,
\* or the scheduled job was claimed once it was due.
C15_Witness ==
    \E w \in Workers :
       /\ wpc[w] = "execute"
       /\ \/ /\ wjob[w] = Some(2)
             /\ jobs[1].status = "pending"
             /\ jobs[1].scheduledAt # None
             /\ Val(jobs[1].scheduledAt) > dbNow
          \/ /\ jobs[Val(wjob[w])].scheduledAt # None
             /\ Val(jobs[Val(wjob[w])].scheduledAt) <= dbNow

\* C16: a run_once call issues one claim_jobs call; while it awaits, exactly
\* the jobs that call returned have an executor; and when it has returned no
\* executor, heartbeat task or active job is left.
C16_RunOnceGathers ==
    /\ mpc \in {"gather", "after_once"} => onceClaims = 1
    /\ mpc = "gather" => batch # {} /\ \A j \in batch : epc[j] # "none"
    /\ \A j \in RJobs : epc[j] # "none" => mpc = "gather" /\ j \in batch
    /\ active_jobs \subseteq batch
    /\ mpc = "after_once" =>
          /\ batch = {}
          /\ active_jobs = {}
          /\ heartbeat_tasks = {}
          /\ \A j \in RJobs : hb[j] = "none"
\* run_once has returned after a batch of two jobs, both of them reported.
C16_Witness ==
    /\ mpc = "after_once"
    /\ rcfg.claim_limit > 1
    /\ \A j \in RJobs : store[j].attempts = 1 /\ completeCalls[j] > 0

\* C18: while a job is being processed, its logger and the context handed to
\* its handler carry its own trace id, which no other job being processed
\* has, and no other job's log entries carry it.
C18_TraceIdIsOwn ==
    \A j \in RJobs :
       trace_id[j] # None =>
          /\ job_logger[j] # None /\ TraceOf(Val(job_logger[j])) = trace_id[j]
          /\ context[j] # None => TraceOf(Val(context[j])) = trace_id[j]
          /\ \A k \in RJobs \ {j} :
                /\ trace_id[k] # trace_id[j]
                /\ \A l \in logs[k] : TraceOf(l) # trace_id[j]
\* Two jobs of one batch are being processed, each with a handler context and
\* a log entry.
C18_Witness ==
    \A j \in RJobs : j \in batch /\ context[j] # None /\ logs[j] # {}

\* C19: every entry logged during an attempt whose handler was run carries
\* the trace id the handler received in its context.
C19_LogsCarryTraceId ==
    \A j \in RJobs :
       context[j] # None =>
          \A l \in logs[j] : TraceOf(l) = TraceOf(Val(context[j]))

\* C17: the registry holds, for every job type, the registration of the first
\* register call made for it (none if there was no call); a register call for
\* a type that already had one raised, every other did not; get returned the
\* whole registration held, or nothing.
FirstRegistered(t) ==
    LET idx == {i \in 1..Len(register_calls) : register_calls[i].job_type = t} IN
    IF idx = {} THEN None
    ELSE Some(register_calls[CHOOSE i \in idx : \A k \in idx : i <= k].registration)
C17_RegistryKeepsFirst ==
    /\ \A t \in JobTypes : _handlers[t] = FirstRegistered(t)
    /\ result.op = "register" =>
          (result.raised <=>
              \E i \in 1..(Len(register_calls) - 1) : register_calls[i].job_type = result.job_type)
    /\ result.op = "get" => result.value = FirstRegistered(result.job_type)
\* A second register call for a type, with another registration, raised.
C17_Witness ==
    /\ result.op = "register" /\ result.raised
    /\ Len(register_calls) = 2
    /\ register_calls[2].registration # register_calls[1].registration
    /\ _handlers[result.job_type] = Some(register_calls[1].registration)

\* C20: get_current_correlation_id returns the value of the latest
\* set_correlation_id, or None if the latest call was clear_correlation_id or
\* nothing was set yet.
LastWrite(i) ==
    LET idx == {k \in 1..(i - 1) : ops[k].op \in {"set", "clear"}} IN
    IF idx = {} THEN None
    ELSE ops[CHOOSE k \in idx : \A m \in idx : m <= k].value
C20_SlotIsRegister ==
    \A i \in 1..Len(ops) : ops[i].op = "get" => ops[i].value = LastWrite(i)
\* set, get, clear, get, as in test_correlation_id_context.
C20_Witness ==
    /\ Len(ops) = 4
    /\ ops[1].op = "set"
    /\ ops[2] = [op |-> "get", value |-> ops[1].value]
    /\ ops[3].op = "clear"
    /\ ops[4] = [op |-> "get", value |-> None]

\* C21: the retry flag a direct-DB worker is about to pass to mark_job_failed
\* is the classification of the error it caught: retryable for a JobError
\* built without the argument, never for a JobValidationError, always for a
\* JobTimeoutError or a JobRPCError, and retryable for any other exception.
ClassifiedRetryable(e) ==
    CASE e.class = "JobError" -> e.arg # "false"
      [] e.class = "JobValidationError" -> FALSE
      [] e.class \in {"JobTimeoutError", "JobRPCError"} -> TRUE
      [] OTHER -> TRUE
C21_RetryFlagIsClassification ==
    \A w \in Workers :
       wpc[w] = "mark_failed" =>
          /\ wraised[w] # None
          /\ wretry[w] = ClassifiedRetryable(Val(wraised[w]))
\* One worker is about to report a validation error, another an exception
\* that is no JobError.
C21_Witness ==
    \E w, v \in Workers :
       /\ wpc[w] = "mark_failed" /\ Val(wraised[w]).class = "JobValidationError"
       /\ ~wretry[w]
       /\ wpc[v] = "mark_failed" /\ Val(wraised[v]).class = "Exception"
       /\ wretry[v]

\* C25: a worker whose handler ran for more than job_timeout_seconds is
\* handling a JobTimeoutError and goes on to mark_job_failed, never to
\* mark_job_completed.
C25_OverrunIsTimedOut ==
    \A w \in overran :
       /\ wpc[w] = "mark_failed"
       /\ wraised[w] = Some(JobTimeoutError)

\* C22: _rpc raises JobForgeError for a transport failure and for a response
\* with status >= 400 alike, and returns the decoded body of any other
\* response that has one.
C22_RpcFailuresAreJobForgeError ==
    response # NoResponse =>
       IF response.error # "none" \/ response.status_code >= 400
       THEN rpc_outcome = Raised("JobForgeError")
       ELSE json(response.text) # None => rpc_outcome = Returned(Val(json(response.text)))

\* C23: the poll loop does not wait for the executors of a batch: while jobs
\* are being processed the main task is never suspended on their batch.
C23_LoopDoesNotAwaitBatch == ~(mpc = "gather" /\ active_jobs # {})

\* C24: at most max_concurrent (= claim_limit) jobs are being processed; a
\* claim is issued only with fewer than that many active, and asks for at most
\* min(claim_limit, max_concurrent - active) jobs.
Min(a, b) == IF a <= b THEN a ELSE b
C24_ActiveWithinCap ==
    /\ Cardinality(active_jobs) <= rcfg.claim_limit
    /\ mpc = "claim" =>
          /\ Cardinality(active_jobs) < rcfg.claim_limit
          /\ ClaimJobsParams(rcfg).limit
                <= Min(rcfg.claim_limit, rcfg.claim_limit - Cardinality(active_jobs))
\* As many jobs as the cap allows are being processed at once.
C24_Witness ==
    /\ rcfg.claim_limit = 2
    /\ Cardinality(active_jobs) = 2
    /\ \A j \in RJobs : epc[j] = "await_handler"

\* C26: a claim turns the returned job from pending to running, records the
\* claiming worker and the time as its lease, adds one to its attempt counter
\* and leaves every other job as it was.
C26_ClaimLeasesAndCounts ==
    [][\A w \in Workers :
          (wpc[w] = "claim" /\ wpc'[w] = "execute") =>
             LET j == Val(wjob'[w]) IN
             /\ jobs[j].status = "pending" /\ jobs'[j].status = "running"
             /\ jobs'[j].startedAt = Some(dbNow)
             /\ \A k \in Jobs \ {j} : jobs'[k] = jobs[k]
             /\ jobs'[j].retryCount = jobs[j].retryCount + 1
             /\ "lockedBy" \in DOMAIN jobs'[j] /\ jobs'[j].lockedBy = w]_vars

\* C27: the job a claim returns has the earliest scheduledAt of the claimable
\* jobs, whatever their priorities.
C27_EarliestRunAtFirst ==
    [][\A w \in Workers :
          (wpc[w] = "claim" /\ wpc'[w] = "execute") =>
             LET j == Val(wjob'[w]) IN
             \A k \in Jobs \ {j} :
                Claimable(jobs[k], dbNow) =>
                   SchedKey(jobs[j]) <= SchedKey(jobs[k])]_vars

\* C28: a job that mark_job_failed returns to pending is scheduled after now
\* and is not claimable at once.
C28_RetryIsDelayed ==
    [][\A j \in Jobs :
          (jobs[j].status = "running" /\ jobs'[j].status = "pending") =>
             /\ jobs'[j].scheduledAt # None
             /\ Val(jobs'[j].scheduledAt) > dbNow
             /\ ~Claimable(jobs'[j], dbNow)]_vars

\* C29: once the handler of a job has raised, or its payload has failed
\* validation, its _process_job has issued complete_job(FAILED) with that
\* error and goes on to its `finally` block, and run_once is still awaiting
\* the batch: the exception has reached neither run_once nor the poll loop.
C29_HandlerErrorsAreReported ==
    \A j \in RJobs :
       (/\ epc[j] = "await_heartbeat"
        /\ \/ hstate[j] = "raised"
           \/ store[j].type \in RegisteredTypes /\ ~store[j].valid)
          => /\ completeCalls[j] >= 1
             /\ lastError[j] = IF hstate[j] = "raised"
                               THEN ErrorData("handler error", "Exception")
                               ELSE ErrorData("Payload validation failed", "ValueError")
             /\ mpc = "gather" /\ j \in batch /\ j \in active_jobs
\* In one batch, one job's payload has failed validation and its executor has
\* ended, and the other job's handler has raised.
C29_Witness ==
    \E j, k \in batch :
       /\ epc[j] = "await_heartbeat" /\ hstate[j] = "raised" /\ completeCalls[j] = 1
       /\ epc[k] = "done" /\ ~store[k].valid
       /\ lastError[k] = ErrorData("Payload validation failed", "ValueError")

\* C30: after a claim call has raised, the RPC worker's main task stays in its
\* poll loop (it returns from run_once, sleeps and claims again) with no job
\* made active, unless it is told to shut down; a direct-DB worker whose claim
\* returned no job, or raised, leaves the table as it is and goes back to the
\* test of its loop.
C30_ClaimErrorKeepsPolling ==
    [][/\ (claim_failed' /\ ~shutting_down') =>
             /\ mpc' \in {"once_error", "after_once", "sleep", "loop_test", "claim"}
             /\ active_jobs' = {} /\ store' = store
       /\ \A w \in Workers :
             (wpc[w] = "claim" /\ wpc'[w] \notin {"claim", "execute"}) =>
                /\ wpc'[w] = "loop"
                /\ wjob'[w] = None
                /\ jobs' = jobs]_vars
\* The RPC worker is about to claim again after a claim that raised.
C30_Witness == mpc = "claim" /\ claim_failed /\ ~shutting_down

\* C31: within one attempt the claim precedes the handler's start and the
\* start of the heartbeat task, the handler has finished (returned or raised)
\* before a terminal complete_job call is issued, and the heartbeat task is
\* stopped only after that call.
C31_AttemptIsOrdered ==
    \A j \in RJobs :
       /\ (hstate[j] # "none" \/ hb[j] # "none") =>
             j \in batch /\ store[j].attempts > 0
       /\ completeCalls[j] > 0 => hstate[j] \notin {"running", "abandoned"}
       /\ hb[j] \in {"cancelling", "done"} => completeCalls[j] > 0

\* C32: once a heartbeat_job call of a job has failed (which is logged as a
\* warning), its heartbeat task is still in its loop, sleeping towards the
\* next call, for as long as the executor awaits the handler, and one call has
\* been issued per elapsed interval; the handler is not aborted; and the
\* terminal report is the one the handler's outcome alone decides.
HeartbeatFailed(j) ==
    \E entry \in logs[j] : entry.level = "warn" /\ entry.message = "Heartbeat failed"
C32_HeartbeatFailureIsOnlyLogged ==
    \A j \in RJobs :
       /\ (epc[j] = "await_handler" /\ hbFailed[j] > 0) => HeartbeatFailed(j)
       /\ HeartbeatFailed(j) =>
             /\ epc[j] = "await_handler" =>
                   /\ hb[j] = "sleeping"
                   /\ hbLeft[j] \in 0..rcfg.heartbeat_interval_s
                   /\ hbCount[j] * rcfg.heartbeat_interval_s
                         + (rcfg.heartbeat_interval_s - hbLeft[j]) = waited[j]
                   /\ hstate[j] \in {"running", "returned", "raised"}
             /\ epc[j] = "await_heartbeat" =>
                   /\ hstate[j] = "returned" =>
                         \/ j \in succeededOk /\ lastError[j] = NoError
                         \/ lastError[j] = ErrorData("RPC call failed", "JobForgeError")
                   /\ hstate[j] = "raised" =>
                         lastError[j] = ErrorData("handler error", "Exception")
                   /\ hstate[j] = "abandoned" =>
                         lastError[j] = TimeoutData(rcfg.timeout_s)
\* Two heartbeat calls of a job have failed, the second an interval after the
\* first, and its handler has then returned.
C32_Witness ==
    \E j \in RJobs :
       /\ epc[j] = "await_handler"
       /\ hbFailed[j] = 2
       /\ hstate[j] = "returned"

\* C33: while the handler of some job is running in its thread, the heartbeat
\* task of every job whose executor awaits its handler (that job's own
\* included) is in its loop and on time: one heartbeat_job call has been issued
\* per heartbeat interval elapsed since the executor began to wait.
C33_HeartbeatsRunBesideHandlers ==
    \A j, k \in RJobs :
       (hstate[k] = "running" /\ epc[j] = "await_handler") =>
          /\ hb[j] \in {"created", "sleeping"}
          /\ hb[j] = "created" => waited[j] = 0 /\ hbCount[j] = 0
          /\ hb[j] = "sleeping" =>
                /\ hbLeft[j] \in 0..rcfg.heartbeat_interval_s
                /\ waited[j] = hbCount[j] * rcfg.heartbeat_interval_s
                                   + (rcfg.heartbeat_interval_s - hbLeft[j])
\* Two handlers are running, and a heartbeat has been issued for each of the
\* two jobs meanwhile.
C33_Witness ==
    \E j, k \in RJobs :
       /\ j # k
       /\ hstate[j] = "running" /\ hstate[k] = "running"
       /\ hbCount[j] > 0 /\ hbCount[k] > 0

\* C34: a job is in heartbeat_tasks and in active_jobs exactly while its
\* executor is between its first step and the end of its finally block; once
\* the executor has ended, however it ended, its heartbeat task is finished and
\* the job is in neither collection; and the keys of heartbeat_tasks are
\* always among active_jobs.
C34_ExecutorCleansUp ==
    /\ heartbeat_tasks \subseteq active_jobs
    /\ \A j \in RJobs :
          /\ epc[j] \in {"await_handler", "await_heartbeat"} =>
                j \in heartbeat_tasks /\ j \in active_jobs /\ hb[j] # "none"
          /\ epc[j] \in {"none", "start", "done"} =>
                j \notin heartbeat_tasks /\ j \notin active_jobs /\ hb[j] = "none"
\* Two executors of a batch have ended, one after a handler timeout, the other
\* after its complete_job(succeeded) call and then its complete_job(failed)
\* call were issued.
C34_Witness ==
    \E j, k \in RJobs :
       /\ epc[j] = "done" /\ lastError[j] = TimeoutData(rcfg.timeout_s)
       /\ epc[k] = "done" /\ completeCalls[k] = 2

\* C35: from the entry of _execute_job to its end a worker's correlation slot
\* holds the correlation id chosen for the job, so the headers of an RPC made
\* meanwhile carry it; outside _execute_job, however it ended, the slot is
\* empty and the headers carry no correlation id.
InExecuteJob(w) ==
    wpc[w] \in {"execute", "mark_completed", "record_completed", "mark_failed",
                "record_failed"}
C35_SlotHoldsJobsId ==
    \A w \in Workers :
       /\ InExecuteJob(w) =>
             /\ wjob[w] # None
             /\ job_correlation_id[w] # None
             /\ worker_correlation_id[w] = job_correlation_id[w]
             /\ _get_headers(w) =
                   [h \in {"X-Correlation-ID"} |-> Val(job_correlation_id[w])]
       /\ ~InExecuteJob(w) =>
             /\ worker_correlation_id[w] = None
             /\ _get_headers(w) = NoHeaders
\* A job is left running by a worker whose mark_job_failed call raised: that
\* worker is back in its loop with an empty slot, while another worker is
\* executing the other job with that job's id in its slot.
C35_Witness ==
    \E j \in Jobs, v \in Workers :
       /\ jobs[j].status = "running"
       /\ \A w \in Workers : wjob[w] # Some(j)
       /\ wpc[v] = "execute" /\ wjob[v] # None
       /\ worker_correlation_id[v] # None
       /\ \E w \in Workers \ {v} : wpc[w] = "claim" /\ worker_correlation_id[w] = None

\* C36: the correlation id a worker chose for the job it executes is the one
\* the job's row carries whenever the row carries one, and a generated one
\* only if the row carries none; the slot holds that id; and once the terminal
\* status has been written, at the calls that record the execution, the row
\* carries that id.
C36_TraceIdIsJobsOwn ==
    \A w \in Workers :
       InExecuteJob(w) =>
          LET j == Val(wjob[w])
              T == Val(job_correlation_id[w])
          IN
          /\ jobs[j].correlationId # None => jobs[j].correlationId = Some(T)
          /\ jobs[j].correlationId = None =>
                T = generate_correlation_id(j, jobs[j].retryCount)
          /\ worker_correlation_id[w] = Some(T)
          /\ wpc[w] \in {"record_completed", "record_failed"} =>
                jobs[j].correlationId = Some(T)
\* One worker is about to record the completed execution of a job enqueued
\* with a correlation id, under that id; another is about to record the failed
\* execution of a job enqueued without one, under the id it generated and
\* wrote to the row.
C36_Witness ==
    \E w, v \in Workers :
       /\ wpc[w] = "record_completed"
       /\ Val(job_correlation_id[w]) = EnqueuedCorrelationId(Val(wjob[w]))
       /\ wpc[v] = "record_failed"
       /\ Val(job_correlation_id[v]).source = "uuid4"
       /\ jobs[Val(wjob[v])].correlationId = job_correlation_id[v]

\* C37: the handler bound to a job name is the one of the first
\* register_handler call for that name, and every later call for the name
\* raised.
FirstHandler(n) ==
    LET idx == {i \in 1..Len(registered) : registered[i].job_name = n} IN
    IF idx = {} THEN None
    ELSE Some(registered[CHOOSE i \in idx : \A k \in idx : i <= k].handler)
C37_DuplicateHandlerRejected ==
    /\ \A n \in JobNames : self_handlers[n] = FirstHandler(n)
    /\ \A i \in 1..Len(registered) :
          registered[i].raised <=>
             \E k \in 1..(i - 1) : registered[k].job_name = registered[i].job_name

\* C38: every executor of a batch that has reached its finally block has
\* issued a terminal complete_job call for its own job; and while another job
\* of the batch has been reported failed, an executor still awaiting its
\* handler has its handler thread and its heartbeat task untouched, and one
\* that is past its terminal call without a failure report has reported
\* success.
C38_FailuresStayWithinTheirJob ==
    \A j \in RJobs :
       /\ epc[j] \in {"await_heartbeat", "done"} => completeCalls[j] >= 1
       /\ (mpc = "gather" /\ j \in batch
             /\ \E k \in batch \ {j} : lastError[k] # NoError) =>
             /\ epc[j] # "none"
             /\ epc[j] = "await_handler" =>
                   /\ hstate[j] \in {"running", "returned", "raised"}
                   /\ hb[j] \in {"created", "sleeping"}
             /\ (epc[j] \in {"await_heartbeat", "done"} /\ lastError[j] = NoError) =>
                   j \in succeededOk /\ completeCalls[j] = 1
\* One job of a batch of two was reported failed because its handler raised;
\* the other has succeeded, and both executors have ended.
C38_Witness ==
    \E j, k \in RJobs :
       /\ mpc = "gather" /\ batch = {j, k} /\ j # k
       /\ epc[j] = "done" /\ epc[k] = "done"
       /\ lastError[k] = ErrorData("handler error", "Exception")
       /\ j \in succeededOk /\ lastError[j] = NoError

\* C39: from the start of _shutdown on, no job is active, no heartbeat task is
\* registered, no executor or heartbeat task exists, and the drain loop of
\* _shutdown is never entered.
C39_NothingActiveAtShutdown ==
    /\ mpc # "drain"
    /\ mpc \in {"shutdown", "stopped"} =>
          /\ active_jobs = {}
          /\ heartbeat_tasks = {}
          /\ batch = {}
          /\ \A j \in RJobs : epc[j] = "none" /\ hb[j] = "none"
\* _shutdown is about to start at least three seconds after the signal: the
\* main task was awaiting a batch when the signal came, and a job of that
\* batch was reported meanwhile.
C39_Witness ==
    /\ mpc = "shutdown"
    /\ sinceSignal # None /\ Val(sinceSignal) >= 3
    /\ claimsAfterSig = 0
    /\ \E j \in RJobs : completeCalls[j] >= 1

\* C40: an executor that has been created for a claimed job eventually ends
\* with a terminal complete_job call issued for the job; and once the worker
\* has been told to shut down it eventually stops with no job active.
C40_ClaimedJobsAreFinished ==
    /\ \A j \in RJobs :
          (epc[j] = "start") ~> (epc[j] = "done" /\ completeCalls[j] >= 1)
    /\ shutting_down ~> (mpc = "stopped" /\ active_jobs = {})
\* The worker has stopped after a job whose handler never returned was timed
\* out and reported, the signal having come during that job's batch.
C40_Witness ==
    /\ mpc = "stopped"
    /\ active_jobs = {}
    /\ claimsAfterSig = 0
    /\ \E j \in RJobs : lastError[j] = TimeoutData(rcfg.timeout_s) /\ completeCalls[j] = 1
====
